---- MODULE Spec2Model ----
(***************************************************************************)
(* A model of the op_engine audio core: the clip database, the per-track   *)
(* render, the timeline mix-down, and the Player / Session pair that an    *)
(* audio callback and a control thread share through two mutexes.          *)
(*                                                                         *)
(* Samples (f32) are integers; 1.0 is the integer One.  Times and buffer   *)
(* indices are naturals; a Rust slice index i is the TLA+ index i + 1.     *)
(***************************************************************************)
EXTENDS Integers, Sequences, FiniteSets

\* ------------------------------------------------------------------ bounds
MaxInst    == 2   \* instances placed on one track
MaxClipLen == 3   \* samples in a placed clip
MaxTime    == 2   \* latest instance time / window start offered
MaxBuf     == 4   \* longest render buffer offered
MaxAmp     == 1   \* largest sample magnitude placed on the mixed timeline
MaxMixClips == 2  \* clips placed on the mixed timeline

\* ------------------------------------------------------- program constants
NumTracks == 4    \* Timeline::new: vec![Track::new(); 4]
One       == 1    \* the clamp limit 1.0 of mix and write_next_block

Times      == 0..MaxTime
BufLens    == 0..MaxBuf
TrackIdx   == 1..NumTracks

VARIABLES
    clips,             \* ClipDatabase.clips : ClipId -> Clip.data
    tracks,            \* Timeline.tracks : sequence of Track.clips
    debug_assertions,  \* the build: TRUE when debug_assert! is compiled in
    disk,              \* the files written: [json: project.json, wav: the export]
    keyboard,          \* Keyboard [base, keys_held] of the application
    call,              \* the last call made: [op, track, start_time, n, arg]
    buf,               \* the buffer that call left behind
    panicked,          \* TRUE when that call panicked instead of returning
    sample_rate,       \* Project.sample_rate
    generator,         \* Project.generator : SineGenerator [on, note, phase]
    config_sample_rate,\* Player.config.sample_rate
    config_buffer_size,\* Player.config.buffer_size: BufferSize::Fixed(frame_count)
    output_buf,        \* Player.output_buf
    playing_project,   \* Player.playing_project
    time,              \* Player.time
    recording,         \* Player.recording
    record_track,      \* Player.record_track, a Rust (0-based) index
    record_start,      \* Player.record_start
    record_buf,        \* Player.record_buf
    player_lock,       \* holder of Session.player's mutex
    project_lock,      \* holder of Session.project's mutex
    player_poisoned,   \* a thread panicked holding the player mutex
    project_poisoned,  \* a thread panicked holding the project mutex
    audio,             \* the audio callback's position [pc, n, i] and the note
                       \* state [gate] it found when produce locked the project
    audio_panicked,    \* the audio callback panicked
    control_panicked,  \* a control operation panicked
    rec                \* history of the current recording, kept for the claims

renderVars  == <<call, buf, panicked>>
projectVars == <<clips, tracks, sample_rate, generator>>
playerVars  == <<config_sample_rate, config_buffer_size, output_buf, playing_project, time, recording,
                 record_track, record_start, record_buf>>
syncVars    == <<player_lock, project_lock, player_poisoned, project_poisoned>>
threadVars  == <<audio, audio_panicked, control_panicked>>
sessionVars == <<sample_rate, generator, playerVars, syncVars, threadVars, rec>>

vars == <<clips, tracks, debug_assertions, disk, keyboard, renderVars, sessionVars>>

\* ------------------------------------------------------------ small helpers
Max(S) == CHOOSE x \in S : \A y \in S : y <= x
Min(S) == CHOOSE x \in S : \A y \in S : x <= y
min(a, b) == IF a <= b THEN a ELSE b

\* buf.fill(v) on a buffer of n samples
Fill(n, v) == [i \in 1..n |-> v]

\* What a caller's buffer holds before render: anything but silence.
Garbage == 0 - 9

\* ----------------------------------------------------------- clip_database
\* ClipDatabase::get(id).is_some()
HasClip(db, id) == id \in DOMAIN db

\* An add that reuses the last slot once the store holds a clip.
add_id_last_slot(db) == Max({Cardinality(DOMAIN db), 1}) - 1

\* ClipDatabase::add: the id is the number of stored clips; insert under it.
add_id(db) == Cardinality(DOMAIN db)
add(db, data) ==
    [i \in (DOMAIN db) \cup {add_id(db)} |-> IF i = add_id(db) THEN data ELSE db[i]]

\* serde_json writes a HashMap<ClipId, Clip> as an object whose keys are the
\* ids in decimal and whose members come in the map's iteration order, which
\* is any order; reading it back inserts the members one by one.
Digits == 0..9
RECURSIVE ToDecimal(_)
ToDecimal(n) == IF n \in Digits THEN <<n>> ELSE Append(ToDecimal(n \div 10), n % 10)
RECURSIVE FromDecimal(_)
FromDecimal(d) ==
    IF Len(d) = 1 THEN d[1]
    ELSE 10 * FromDecimal(SubSeq(d, 1, Len(d) - 1)) + d[Len(d)]
Orders(S) == {o \in [1..Cardinality(S) -> S] : \A i, j \in DOMAIN o : i # j => o[i] # o[j]}
serialize_clips(db, order) ==
    [i \in DOMAIN order |-> [key |-> ToDecimal(order[i]), data |-> db[order[i]]]]
deserialize_clips(members) ==
    LET ids    == {FromDecimal(members[i].key) : i \in DOMAIN members}
        at(id) == CHOOSE i \in DOMAIN members :
                      /\ FromDecimal(members[i].key) = id
                      /\ \A j \in DOMAIN members : FromDecimal(members[j].key) = id => j <= i
    IN  [id \in ids |-> members[at(id)].data]

\* ------------------------------------------------------------------- Clip
\* Clip::load_wav: every PCM sample s becomes s / ((1 << bits) / 2 - 1), and
\* step_by keeps the first of every `channels` samples. A loaded sample is
\* held here as the integer count of steps of 1 / Unit, which is exact for both
\* sample widths; the f32 quotient rounds to a value on the same side of 1 and
\* of -1 as the exact one.
BitsPerSample == {8, 16}
FullScale(bits) == (2 ^ bits) \div 2 - 1
PcmMin(bits)    == 0 - (2 ^ bits) \div 2
Unit == FullScale(8) * FullScale(16)
normalise(bits, pcm) == pcm * (Unit \div FullScale(bits))
load_wav(bits, channels, pcm) ==
    [i \in 1..((Len(pcm) + channels - 1) \div channels) |->
        normalise(bits, pcm[(i - 1) * channels + 1])]

\* Clip::load_wav as a whole, on a file that opens and decodes: the two
\* debug_assert_eq! on the header stop a build that compiles them in; every
\* other build goes on to the samples. The file holds integer PCM.
Clip_load_wav(project_rate, wav, dbg) ==
    IF dbg /\ wav.sample_rate # project_rate
    THEN [result |-> "panic", data |-> <<>>]
    ELSE [result |-> "ok", data |-> load_wav(wav.bits, wav.channels, wav.pcm)]

\* ------------------------------------------------------------ ClipInstance
ClipInstance(at, clip_id) == [time |-> at, clip_id |-> clip_id]

start(c) == c.time

\* ClipInstance::len / ClipInstance::end, defined when the clip resolves.
inst_len(db, c) == Len(db[c.clip_id])
end(db, c) == c.time + inst_len(db, c)

\* ------------------------------------------------------------------- Track
\* Track::instantiate_clip: push at the back.
instantiate_clip(track, clip_id, at) == Append(track, ClipInstance(at, clip_id))

\* Track::last_clip: max_by_key over Option<Time> (None < Some); the last of
\* equal maxima.  0 when the track is empty.
last_clip(db, track) ==
    IF Len(track) = 0 THEN 0
    ELSE LET key(i) == IF HasClip(db, track[i].clip_id) THEN end(db, track[i]) ELSE 0 - 1
             best == Max({key(i) : i \in 1..Len(track)})
         IN  Max({i \in 1..Len(track) : key(i) = best})

\* Track::len: last_clip.and_then(end).unwrap_or(0)
Track_len(db, track) ==
    LET l == last_clip(db, track)
    IN  IF l = 0 THEN 0
        ELSE IF HasClip(db, track[l].clip_id) THEN end(db, track[l]) ELSE 0

\* A next_clip that takes the latest start after t instead of the earliest.
next_clip_latest(track, t) ==
    LET cand == {i \in 1..Len(track) : start(track[i]) > t}
    IN  IF cand = {} THEN 0
        ELSE LET best == Max({start(track[i]) : i \in cand})
             IN  Min({i \in cand : start(track[i]) = best})

\* Track::next_clip: filter start > t, min_by_key start; the first of equal
\* minima.  0 when there is none.
next_clip(track, t) ==
    LET cand == {i \in 1..Len(track) : start(track[i]) > t}
    IN  IF cand = {} THEN 0
        ELSE LET best == Min({start(track[i]) : i \in cand})
             IN  Min({i \in cand : start(track[i]) = best})

\* A clip_at that takes the first inserted of the instances covering t.
clip_at_first(db, track, t) ==
    LET cand == {i \in 1..Len(track) :
                    /\ start(track[i]) <= t
                    /\ HasClip(db, track[i].clip_id)
                    /\ end(db, track[i]) > t}
    IN  IF cand = {} THEN 0 ELSE Min(cand)

\* Track::clip_at: rfind start <= t && end > Some(t).  0 when there is none.
clip_at(db, track, t) ==
    LET cand == {i \in 1..Len(track) :
                    /\ start(track[i]) <= t
                    /\ HasClip(db, track[i].clip_id)
                    /\ end(db, track[i]) > t}
    IN  IF cand = {} THEN 0 ELSE Max(cand)

\* copy_clip_data's two debug_assert!s fail.
copy_asserts_fail(data, b, clip_start, buf_start) ==
    ~(clip_start < Len(data)) \/ ~(buf_start <= Len(b))

\* A copy_clip_data that leaves silence behind the samples it copied, as a
\* tape that is cut where the new clip ends.
copy_clip_data_cut(data, b, clip_start, buf_start, max_copy) ==
    LET buf_space   == Len(b) - buf_start
        clip_space  == Len(data) - clip_start
        actual_copy == min(max_copy, min(buf_space, clip_space))
    IN  IF actual_copy <= 0 THEN b
        ELSE [i \in 1..Len(b) |->
                IF buf_start < i /\ i <= buf_start + actual_copy
                THEN data[clip_start + (i - buf_start)]
                ELSE IF i > buf_start + actual_copy THEN 0 ELSE b[i]]

\* copy_clip_data: copy min(max_copy, buffer space, clip space) samples of
\* data from clip_start to b from buf_start.
copy_clip_data(data, b, clip_start, buf_start, max_copy) ==
    LET buf_space   == Len(b) - buf_start
        clip_space  == Len(data) - clip_start
        actual_copy == min(max_copy, min(buf_space, clip_space))
    IN  IF actual_copy <= 0 THEN b
        ELSE [i \in 1..Len(b) |->
                IF buf_start < i /\ i <= buf_start + actual_copy
                THEN data[clip_start + (i - buf_start)]
                ELSE b[i]]

\* The "copy clips until end" loop of Track::render.
RECURSIVE render_loop(_, _, _, _, _, _, _)
render_loop(db, track, start_time, end_time, cur, b, dbg) ==
    LET nx == next_clip(track, cur)
    IN  IF nx = 0 THEN [buf |-> b, panic |-> FALSE]
        ELSE IF ~HasClip(db, track[nx].clip_id) THEN [buf |-> b, panic |-> FALSE]
        ELSE LET t    == start(track[nx])
                 data == db[track[nx].clip_id]
             IN  IF t > end_time THEN [buf |-> b, panic |-> FALSE]
                 ELSE IF dbg /\ copy_asserts_fail(data, b, 0, t - start_time)
                      THEN [buf |-> b, panic |-> TRUE]
                 ELSE render_loop(db, track, start_time, end_time, t,
                                  copy_clip_data(data, b, 0, t - start_time, Len(data)),
                                  dbg)

\* An "ongoing at the start" step that stops copying where the next instance
\* starts.
render_ongoing_until_next(db, track, t, b) ==
    LET at == clip_at(db, track, t)
        nx == next_clip(track, t)
    IN  IF at = 0 THEN b
        ELSE copy_clip_data(db[track[at].clip_id], b, t - start(track[at]), 0,
                            IF nx = 0 THEN Len(db[track[at].clip_id])
                            ELSE start(track[nx]) - t)

\* The "clip ongoing at the start" step of Track::render.
render_ongoing(db, track, t, b) ==
    LET at == clip_at(db, track, t)
    IN  IF at = 0 THEN b
        ELSE copy_clip_data(db[track[at].clip_id], b, t - start(track[at]), 0,
                            Len(db[track[at].clip_id]))

\* Track::render on a buffer b0; the result is the buffer and whether the
\* call panicked.
Track_render(db, track, start_time, b0, dbg) ==
    LET zeroed == Fill(Len(b0), 0)
    IN  IF start_time >= Track_len(db, track) THEN [buf |-> zeroed, panic |-> FALSE]
        ELSE render_loop(db, track, start_time, start_time + Len(b0), start_time,
                         render_ongoing(db, track, start_time, zeroed), dbg)

\* Track::render_all: a buffer of len() samples rendered from 0.
Track_render_all(db, track, dbg) ==
    Track_render(db, track, 0, Fill(Track_len(db, track), 0), dbg)

\* ---------------------------------------------------------------- lib::mix
\* f32::max(-1.0).min(1.0)
clamp(x) == IF x < 0 - One THEN 0 - One ELSE IF x > One THEN One ELSE x

\* The inner loop of mix: buf[i] += source[i] over the first j sources, those
\* shorter than i skipped.
RECURSIVE mix_sum(_, _, _)
mix_sum(sources, i, j) ==
    IF j = 0 THEN 0
    ELSE mix_sum(sources, i, j - 1) + (IF i > Len(sources[j]) THEN 0 ELSE sources[j][i])

\* A mix that sums and does not clamp.
mix_unclamped(sources, b) == [i \in 1..Len(b) |-> mix_sum(sources, i, Len(sources))]

\* mix(sources, buf)
mix(sources, b) == [i \in 1..Len(b) |-> clamp(mix_sum(sources, i, Len(sources)))]

\* ---------------------------------------------------------------- Timeline
\* Timeline::len: the longest track.
Timeline_len(db, tl) == Max({Track_len(db, tl[k]) : k \in 1..Len(tl)})

\* The tracks render_exclude keeps, in order.
kept_tracks(tl, exclude) ==
    SelectSeq([k \in 1..Len(tl) |-> k], LAMBDA k : k \notin exclude)

\* Timeline::render_exclude: every kept track renders into a zeroed buffer of
\* its own, and the buffers are mixed.
Timeline_render_exclude(db, tl, start_time, b0, exclude, dbg) ==
    IF start_time >= Timeline_len(db, tl) THEN [buf |-> Fill(Len(b0), 0), panic |-> FALSE]
    ELSE LET kept     == kept_tracks(tl, exclude)
             rendered == [j \in 1..Len(kept) |->
                             Track_render(db, tl[kept[j]], start_time, Fill(Len(b0), 0), dbg)]
         IN  IF \E j \in 1..Len(kept) : rendered[j].panic
             THEN [buf |-> b0, panic |-> TRUE]
             ELSE [buf |-> mix([j \in 1..Len(kept) |-> rendered[j].buf], b0),
                   panic |-> FALSE]

\* Timeline::render
Timeline_render(db, tl, start_time, b0, dbg) ==
    Timeline_render_exclude(db, tl, start_time, b0, {}, dbg)

\* Timeline::render_all
Timeline_render_all(db, tl, dbg) ==
    Timeline_render(db, tl, 0, Fill(Timeline_len(db, tl), 0), dbg)

\* ----------------------------------------------------------- SineGenerator
\* The phase is counted in steps of the increment 2*PI*freq of the default
\* note; a whole turn 2*PI is Turn such steps, so the default note sounds
\* 1, 0, -1, 0 and the note an octave above it moves two steps a sample.
DefaultNote == 69
SemitonesPerOctave == 12
Turn == 4
Notes == {DefaultNote, DefaultNote + SemitonesPerOctave}

\* SineGenerator::new
SineGenerator_new == [on |-> FALSE, note |-> DefaultNote, phase |-> 0]

\* 2*PI*freq with freq = midi_note_to_hz(note) / sample_rate, in phase steps.
phase_step(note) == 2 ^ ((note - DefaultNote) \div SemitonesPerOctave)

\* f32::sin on whole phase steps.
sin(phase) ==
    IF phase % Turn = 1 THEN One ELSE IF phase % Turn = Turn - 1 THEN 0 - One ELSE 0

\* SineGenerator::next: the generator after the call and the sample returned.
Generator_next(g) ==
    IF ~g.on THEN [gen |-> g, sample |-> 0]
    ELSE LET p1 == g.phase + phase_step(g.note)
             p2 == IF p1 > Turn THEN p1 - Turn ELSE p1
             p3 == IF p2 < 0 THEN p2 + Turn ELSE p2
         IN  [gen |-> [g EXCEPT !.phase = p3], sample |-> sin(p3)]

\* SineGenerator::handle for the two messages it matches.
Generator_handle_any_off(g, msg) ==
    IF msg.type = "NoteOn" THEN [g EXCEPT !.note = msg.key, !.on = TRUE]
    ELSE IF msg.type = "NoteOff" THEN [g EXCEPT !.on = FALSE]
    ELSE g
Generator_handle(g, msg) ==
    IF msg.type = "NoteOn" THEN [g EXCEPT !.note = msg.key, !.on = TRUE]
    ELSE IF msg.type = "NoteOff" /\ g.note = msg.key THEN [g EXCEPT !.on = FALSE]
    ELSE g

\* ----------------------------------------------------------------- Keyboard
\* The keys of SCALE in order; a key's note is base plus its position.
SCALE == <<"A", "W", "S", "E", "D", "F", "T", "G", "Y", "H", "U", "J", "K">>
OCTAVE_UP   == "X"
OCTAVE_DOWN == "Z"
BaseNote == 60

\* Keyboard::new
Keyboard_new == [base |-> BaseNote, keys_held |-> {}]

\* Keyboard::key_to_note: the set is empty for a key outside SCALE.
key_to_note(base, key) == {base + (i - 1) : i \in {j \in 1..Len(SCALE) : SCALE[j] = key}}

\* Keyboard::update: the octave keys just pressed move base, then the keys
\* just pressed give NoteOn and the keys just released NoteOff, all with the
\* base as it is now. The result is the keyboard and the two sets of notes.
Keyboard_update(kb, keys_down) ==
    LET just_pressed  == keys_down \ kb.keys_held
        just_released == kb.keys_held \ keys_down
        base == kb.base + (IF OCTAVE_UP \in just_pressed THEN SemitonesPerOctave ELSE 0)
                        - (IF OCTAVE_DOWN \in just_pressed THEN SemitonesPerOctave ELSE 0)
    IN  [keyboard  |-> [base |-> base, keys_held |-> keys_down],
         notes_on  |-> UNION {key_to_note(base, k) : k \in just_pressed},
         notes_off |-> UNION {key_to_note(base, k) : k \in just_released}]

\* ------------------------------------------------------------------ Project
DefaultSampleRate == 44100

\* Project::export: the whole timeline is rendered, then written as a WAV
\* whose header comes from the constant SPEC; each sample is scaled by
\* i16::MAX and cast to i16, a cast that saturates.
ExportSampleRate == 44100
I16Max == 32767
as_i16(x) == IF x > I16Max THEN I16Max ELSE IF x < 0 - I16Max - 1 THEN 0 - I16Max - 1 ELSE x
Project_export(db, tl, dbg) ==
    LET r == Timeline_render_all(db, tl, dbg)
    IN  IF r.panic THEN [wav |-> <<>>, panic |-> TRUE]
        ELSE [wav |-> [exists |-> TRUE, sample_rate |-> ExportSampleRate,
                       tracks |-> <<>>, clips |-> <<>>,
                       samples |-> [i \in 1..Len(r.buf) |-> as_i16((r.buf[i] * I16Max) \div One)]],
              panic |-> FALSE]

\* Track::add_clip(time, clip): store the clip and place an instance of it.
Track_add_clip(db, track, at, data) ==
    [clips |-> add(db, data), track |-> instantiate_clip(track, add_id(db), at)]

\* ------------------------------------------------------------------- Player
MaxFrames == 2     \* frames the host asks for in one callback

Frames == 1..MaxFrames

\* src_samples = (dst_samples as f64 * src_rate / dst_rate) as usize
src_samples(dst_samples, src_rate, dst_rate) == (dst_samples * src_rate) \div dst_rate

\* output_buf.resize(n, 0.0) when output_buf.len() < n
resize(b, n) == IF Len(b) < n THEN [i \in 1..n |-> IF i <= Len(b) THEN b[i] ELSE 0] ELSE b

\* An advance that wraps as soon as the playhead reaches the end.
advance_wrap_at_len(t, src, len, rec_on) ==
    IF t + src >= len /\ ~rec_on THEN 0 ELSE t + src

\* An advance that wraps at the end of the timeline also while recording.
advance_wrap_recording(t, src, len, rec_on) ==
    IF t + src > len THEN 0 ELSE t + src

\* self.time += src_samples; if self.time > timeline.len() && !self.recording
\* { self.time = 0 }
advance(t, src, len, rec_on) ==
    IF t + src > len /\ ~rec_on THEN 0 ELSE t + src

\* A set_recording that stores whatever the buffer holds when recording ends.
stores_any_recording(r, rbuf) == ~r

\* if !recording && !self.record_buf.is_empty() { self.write_recorded_clip() }
stores_recording(r, rbuf) == ~r /\ rbuf # <<>>

\* A set_recording without its early return.
set_recording_goes_on(cur, r) == FALSE

\* if self.recording == recording { return; }
set_recording_returns(cur, r) == cur = r

\* What record_buf.push stores for a sample pulled from the generator: the
\* sample itself, or (not in the code) the clamped mix left in output_buf.
record_push_mixed(rbuf, sample, mixed) == Append(rbuf, mixed)

\* record_buf.push(sample)
record_push(rbuf, sample, mixed) == Append(rbuf, sample)

\* A write_recorded_clip that places the clip where the recording ended.
write_recorded_clip_at_end(db, tl, track, at, data) ==
    LET r == Track_add_clip(db, tl[track + 1], at + Len(data), data)
    IN  [clips |-> r.clips, tracks |-> [tl EXCEPT ![track + 1] = r.track]]

\* Player::write_recorded_clip past the lock, for a track index in range:
\* tracks[record_track].add_clip(record_start, Clip::new(take(record_buf))).
write_recorded_clip(db, tl, track, at, data) ==
    LET r == Track_add_clip(db, tl[track + 1], at, data)
    IN  [clips |-> r.clips, tracks |-> [tl EXCEPT ![track + 1] = r.track]]

\* The history of a recording: the playhead and the track at arming, whether
\* the player was playing then, the playhead at which the first sample was
\* captured, the samples the playhead advanced and the generator samples
\* pulled while playing and recording, whether the recording was stopped, and
\* whether a seek moved the playhead since arming.
NoRec == [armed |-> FALSE, time |-> 0, track |-> 0, playing |-> FALSE, begin |-> 0,
          advanced |-> 0, tape |-> <<>>, done |-> FALSE, sought |-> FALSE]

\* The note state of the generator: the gate and the last key.
NoteState(g) == [on |-> g.on, note |-> g.note]
NoGate == [on |-> FALSE, note |-> 0]

AudioIdle == [pc |-> "idle", n |-> 0, i |-> 0, gate |-> NoGate]
AudioDead == [pc |-> "dead", n |-> 0, i |-> 0, gate |-> NoGate]

\* Session::empty_with_defaults: Project::new, Player::new, both mutexes free,
\* the stream started.
InitSession ==
    /\ sample_rate = DefaultSampleRate
    /\ generator = SineGenerator_new
    /\ config_sample_rate = DefaultSampleRate
    /\ config_buffer_size \in Frames
    /\ output_buf = Fill(config_buffer_size, 0)
    /\ playing_project = FALSE
    /\ time = 0
    /\ recording = FALSE
    /\ record_track = 0
    /\ record_start = 0
    /\ record_buf = <<>>
    /\ player_lock = "free"
    /\ project_lock = "free"
    /\ player_poisoned = FALSE
    /\ project_poisoned = FALSE
    /\ audio = AudioIdle
    /\ audio_panicked = FALSE
    /\ control_panicked = FALSE
    /\ rec = NoRec

\* ----------------------------------------------------------- Track actions
\* The data of the clip the model places under id: distinct non-zero samples,
\* so that every copied sample names its clip and its offset.
Ramp(id, n) == [j \in 1..n |-> (id + 1) * (MaxClipLen + 2) + j]

NoCall == [op |-> "none", track |-> 0, start_time |-> 0, n |-> 0, arg |-> {}]

NumClips == Cardinality(DOMAIN clips)

\* Nothing saved and nothing exported yet.
NoFile == [exists |-> FALSE, sample_rate |-> 0, tracks |-> <<>>, clips |-> <<>>, samples |-> <<>>]
NoDisk == [json |-> NoFile, wav |-> NoFile]

\* A render leaves the database and the tracks as they were, so a run of the
\* track model builds a track and ends with one render of it.
Idle == call = NoCall

\* The state after construction: an empty project and a fresh session.
Init ==
    /\ clips = <<>>
    /\ tracks = [k \in TrackIdx |-> <<>>]
    /\ debug_assertions \in BOOLEAN
    /\ disk = NoDisk
    /\ keyboard = Keyboard_new
    /\ call = NoCall
    /\ buf = <<>>
    /\ panicked = FALSE
    /\ InitSession

\* The render models leave the session alone; they start from one block size.
InitTrack == Init /\ config_buffer_size = MaxFrames

\* db.add(Clip::new(data)) followed by track.instantiate_clip(id, time).
AddClip(k, at, data) ==
    /\ Idle
    /\ Len(tracks[k]) < MaxInst
    /\ clips' = add(clips, data)
    /\ tracks' = [tracks EXCEPT ![k] = instantiate_clip(@, add_id(clips), at)]
    /\ UNCHANGED <<debug_assertions, disk, keyboard, call, buf, panicked, sessionVars>>

\* track.render(&db, start_time, &mut buf) with a buffer of n samples.
RenderTrack(k, start_time, n) ==
    LET r == Track_render(clips, tracks[k], start_time, Fill(n, Garbage), debug_assertions)
    IN  /\ Idle
        /\ call' = [op |-> "track_render", track |-> k, start_time |-> start_time, n |-> n,
                    arg |-> {}]
        /\ buf' = r.buf
        /\ panicked' = r.panic
        /\ UNCHANGED <<clips, tracks, debug_assertions, disk, keyboard, sessionVars>>

NextTrack ==
    \/ \E at \in Times, n \in 0..MaxClipLen : AddClip(1, at, Ramp(add_id(clips), n))
    \/ \E s \in 0..(MaxTime + 1), n \in BufLens : RenderTrack(1, s, n)

SpecTrack == InitTrack /\ [][NextTrack]_vars

\* A track that also holds instances of a clip the database lacks: the id is
\* past every id the database of this model issues.
DanglingId == MaxInst + MaxInst

\* track.instantiate_clip(id, time) for an id that is not in the database.
InstantiateDangling(k, at) ==
    /\ Idle
    /\ Len(tracks[k]) < MaxInst
    /\ tracks' = [tracks EXCEPT ![k] = instantiate_clip(@, DanglingId, at)]
    /\ UNCHANGED <<clips, debug_assertions, disk, keyboard, call, buf, panicked, sessionVars>>

NextDangling ==
    \/ \E at \in Times, n \in 1..MaxClipLen : AddClip(1, at, Ramp(add_id(clips), n))
    \/ \E at \in Times : InstantiateDangling(1, at)
    \/ \E s \in 0..(MaxTime + 1), n \in BufLens : RenderTrack(1, s, n)

SpecDangling == InitTrack /\ [][NextDangling]_vars

\* A track of clips read from WAV files and of recorded clips. The PCM samples
\* offered are the ends of the sample width's range, the largest magnitude
\* that has a negative, and silence; a recorded clip holds samples of the
\* sine generator, here in steps of 1 / Unit.
PcmLen == 2
Pcm(bits) == {PcmMin(bits), 0 - FullScale(bits), 0, FullScale(bits)}
PcmData(bits) == UNION {[1..n -> Pcm(bits)] : n \in 1..PcmLen}
Recorded == {<<Unit>>, <<0 - Unit, 0>>}

NextLoaded ==
    \/ \E at \in Times, bits \in BitsPerSample, channels \in 1..2 :
           \E pcm \in PcmData(bits) : AddClip(1, at, load_wav(bits, channels, pcm))
    \/ \E at \in Times, data \in Recorded : AddClip(1, at, data)
    \/ \E s \in 0..(MaxTime + 1), n \in BufLens : RenderTrack(1, s, n)

SpecLoaded == InitTrack /\ [][NextLoaded]_vars

\* The generator on its own: messages are handled and samples are pulled.
\* `call` keeps the last HistoryLen messages handled, the newest at age 1.
HistoryLen == 3
MidiMessages == [type : {"NoteOn", "NoteOff", "Controller"}, key : Notes]
Heard(history, msg) ==
    {[age |-> h.age + 1, msg |-> h.msg] : h \in {x \in history : x.age < HistoryLen}}
        \cup {[age |-> 1, msg |-> msg]}

\* generator.handle(msg)
GeneratorHandle(msg) ==
    /\ generator' = Generator_handle(generator, msg)
    /\ call' = [NoCall EXCEPT !.op = "handle", !.arg = Heard(call.arg, msg)]
    /\ UNCHANGED <<clips, tracks, debug_assertions, disk, keyboard, buf, panicked, sample_rate,
                   playerVars, syncVars, threadVars, rec>>

\* generator.next()
GeneratorNext ==
    /\ generator' = Generator_next(generator).gen
    /\ UNCHANGED <<clips, tracks, debug_assertions, disk, keyboard, call, buf, panicked, sample_rate,
                   playerVars, syncVars, threadVars, rec>>

NextGenerator ==
    \/ \E msg \in MidiMessages : GeneratorHandle(msg)
    \/ GeneratorNext

SpecGenerator == InitTrack /\ [][NextGenerator]_vars

\* The clip store on its own: clips are added, the project is saved, and a
\* saved project is loaded over the current one. `call` notes the operation
\* and the id it returned, and keeps a mark once the store came from a file.
MaxStore == 3   \* clips held by the store
Tones    == 0..1

\* database.add(Clip::new(data))
StoreAdd(data) ==
    /\ NumClips < MaxStore
    /\ clips' = add(clips, data)
    /\ call' = [NoCall EXCEPT !.op = "add", !.n = add_id(clips), !.arg = call.arg]
    /\ UNCHANGED <<tracks, debug_assertions, disk, keyboard, buf, panicked, sessionVars>>

\* project.save(path): serde_json::to_string(self) written to project.json.
Project_save(order) ==
    [NoFile EXCEPT !.exists = TRUE, !.sample_rate = sample_rate, !.tracks = tracks,
                   !.clips = serialize_clips(clips, order)]
Save(order) ==
    /\ disk' = [disk EXCEPT !.json = Project_save(order)]
    /\ call' = [NoCall EXCEPT !.op = "save", !.arg = call.arg]
    /\ UNCHANGED <<clips, tracks, debug_assertions, keyboard, buf, panicked, sessionVars>>

\* project.load_overwrite(path): *self = serde_json::from_str(project.json).
LoadSaved ==
    /\ disk.json.exists
    /\ clips' = deserialize_clips(disk.json.clips)
    /\ tracks' = disk.json.tracks
    /\ sample_rate' = disk.json.sample_rate
    /\ call' = [NoCall EXCEPT !.op = "load", !.arg = {"restored"}]
    /\ UNCHANGED <<debug_assertions, disk, keyboard, buf, panicked, generator, playerVars, syncVars,
                   threadVars, rec>>

NextStore ==
    \/ \E v \in Tones : StoreAdd(Ramp(v, 1))
    \/ \E order \in Orders(DOMAIN clips) : Save(order)
    \/ LoadSaved

SpecStore == InitTrack /\ [][NextStore]_vars

\* -------------------------------------------------------- Timeline actions
\* The timeline model places clips of MixLen equal samples, of either sign,
\* on two of the four tracks, and ends with one render or one mix.
Amps       == {0 - MaxAmp, MaxAmp}
MixLen     == 2
MixTimes   == {0, 1}
MixTracks  == {1, 3}
Const(v, n) == [j \in 1..n |-> v]

MixAddClip(k, at, data) ==
    /\ NumClips < MaxMixClips
    /\ AddClip(k, at, data)

\* timeline.render_exclude(&db, start_time, &mut buf, exclude)
RenderTimeline(start_time, n, exclude) ==
    LET r == Timeline_render_exclude(clips, tracks, start_time, Fill(n, Garbage), exclude,
                                     debug_assertions)
    IN  /\ Idle
        /\ call' = [op |-> "timeline_render", track |-> 0, start_time |-> start_time,
                    n |-> n, arg |-> exclude]
        /\ buf' = r.buf
        /\ panicked' = r.panic
        /\ UNCHANGED <<clips, tracks, debug_assertions, disk, keyboard, sessionVars>>

\* mix(&sources, &mut buf), which reads no state: called on the empty project.
Mix(sources, n) ==
    /\ Idle
    /\ NumClips = 0
    /\ call' = [op |-> "mix", track |-> 0, start_time |-> 0, n |-> n, arg |-> sources]
    /\ buf' = mix(sources, Fill(n, Garbage))
    /\ panicked' = FALSE
    /\ UNCHANGED <<clips, tracks, debug_assertions, disk, keyboard, sessionVars>>

MixSources == {Const(v, n) : v \in Amps, n \in 0..(MixLen + 1)}

NextTimeline ==
    \/ \E k \in MixTracks, at \in MixTimes, v \in Amps : MixAddClip(k, at, Const(v, MixLen))
    \/ \E s \in 0..MixLen, n \in 0..(MixLen + 1), x \in {{}, {1}} :
            RenderTimeline(s, n, x)
    \/ \E a, b \in MixSources, n \in 0..(MixLen + 1) : Mix(<<a, b>>, n)

SpecTimeline == InitTrack /\ [][NextTimeline]_vars

\* Projects of either sample rate: a project file is loaded, clips are placed
\* and the project is exported.
SampleRates == {DefaultSampleRate, 2 * DefaultSampleRate}

\* project.load_overwrite(path) of a project.json that holds no clips and the
\* sample rate `rate`.
LoadProject(rate) ==
    /\ Idle
    /\ sample_rate' = rate
    /\ tracks' = [k \in TrackIdx |-> <<>>]
    /\ clips' = <<>>
    /\ UNCHANGED <<debug_assertions, disk, keyboard, call, buf, panicked, generator, playerVars,
                   syncVars, threadVars, rec>>

\* project.export(path)
Export ==
    LET r == Project_export(clips, tracks, debug_assertions)
    IN  /\ Idle
        /\ call' = [NoCall EXCEPT !.op = "export"]
        /\ panicked' = r.panic
        /\ disk' = IF r.panic THEN disk ELSE [disk EXCEPT !.wav = r.wav]
        /\ UNCHANGED <<clips, tracks, debug_assertions, keyboard, buf, sessionVars>>

NextExport ==
    \/ \E rate \in SampleRates : LoadProject(rate)
    \/ \E k \in MixTracks, at \in MixTimes, v \in Amps, n \in 1..MixLen :
           MixAddClip(k, at, Const(v, n))
    \/ Export

SpecExport == InitTrack /\ [][NextExport]_vars

\* ------------------------------------------------------- timeline view
\* track_update, MoveClip: instance.time = (instance.time as i32 + delta) as usize.
\* The machine words are narrowed: i32 is a signed word of IntBits bits and
\* usize an unsigned word of twice as many. `as i32` keeps the low bits, the
\* addition overflows the signed word (a panic where overflow checks are
\* compiled in, a wrap where they are not), and `as usize` sign-extends.
IntBits  == 4
SizeBits == 2 * IntBits
IntMax   == 2 ^ (IntBits - 1) - 1
IntMin   == 0 - 2 ^ (IntBits - 1)
SizeMax  == 2 ^ SizeBits - 1
wrap_int(x)  == ((x - IntMin) % (2 ^ IntBits)) + IntMin
as_int(t)    == wrap_int(t)
as_size(x)   == x % (2 ^ SizeBits)
moved_time(t, delta, dbg) ==
    LET sum == as_int(t) + delta
    IN  IF dbg /\ (sum > IntMax \/ sum < IntMin) THEN [time |-> t, panic |-> TRUE]
        ELSE [time |-> as_size(wrap_int(sum)), panic |-> FALSE]

\* Track::get_clip_mut(clip_id): the instance of that clip, 0 when there is none.
get_clip_mut(track, clip_id) ==
    IF \E i \in 1..Len(track) : track[i].clip_id = clip_id
    THEN Min({i \in 1..Len(track) : track[i].clip_id = clip_id})
    ELSE 0

\* A track whose instances are dragged: `call` notes the move made, the
\* instance it found and the time that instance had.
Deltas == {0 - 2, 0 - 1, 1}
MoveClip(k, clip_id, delta) ==
    LET i == get_clip_mut(tracks[k], clip_id)
        r == moved_time(tracks[k][i].time, delta, debug_assertions)
    IN  /\ ~panicked
        /\ call' = [NoCall EXCEPT !.op = "move", !.track = k, !.n = i,
                                  !.start_time = IF i = 0 THEN 0 ELSE tracks[k][i].time,
                                  !.arg = {delta}]
        /\ IF i = 0 THEN UNCHANGED <<tracks, panicked>>
           ELSE /\ panicked' = r.panic
                /\ tracks' = [tracks EXCEPT ![k][i].time = r.time]
        /\ UNCHANGED <<clips, debug_assertions, disk, keyboard, buf, sessionVars>>

PlaceToMove(k, at, data) ==
    /\ ~panicked
    /\ Len(tracks[k]) < MaxInst
    /\ clips' = add(clips, data)
    /\ tracks' = [tracks EXCEPT ![k] = instantiate_clip(@, add_id(clips), at)]
    /\ call' = NoCall
    /\ UNCHANGED <<debug_assertions, disk, keyboard, buf, panicked, sessionVars>>

NextMove ==
    \/ \E at \in Times : PlaceToMove(1, at, Ramp(add_id(clips), 1))
    \/ \E id \in 0..MaxInst, delta \in Deltas : MoveClip(1, id, delta)

SpecMove == InitTrack /\ [][NextMove]_vars

\* --------------------------------------------------------- Session actions
\* The audio callback runs as the steps below; a control operation runs as one
\* step when the mutex it locks first is free, because nothing else can take
\* the second mutex from it: the callback holds the project mutex only inside
\* the player mutex.
MaxPlayhead == 2   \* a callback that would play, or record, past it does not start
MaxSeek     == 1   \* latest seek target
MaxPlaced   == 1   \* instances placed on the track the caller places on
MaxRecorded == 1   \* recordings stored in the project
PlaceLen    == 2   \* samples of a placed clip

SeekTimes    == 0..MaxSeek
\* 0-based track indices a caller passes: a track to place on, a track to
\* record on, and one past the end
PlaceTracks  == {0, NumTracks}
RecordTracks == {1, NumTracks}
\* The clips a caller places: a loud one at the start and an empty one after it
Placements   == {[at |-> 0, data |-> Const(0 - One, PlaceLen)], [at |-> 1, data |-> <<>>]}
Messages     == [type : {"NoteOn", "NoteOff"}, key : {DefaultNote}]

\* The instances on the tracks recordings go to.
StoredRecordings ==
    Cardinality({<<k, i>> \in RecordTracks \X (1..MaxRecorded) :
                    k < Len(tracks) /\ i <= Len(tracks[k + 1])})

\* A call of play, pause or set_recording that asks for the state the player
\* is already in is noted in `call` for one step; every other step clears it.
Repeat(op, k) == [NoCall EXCEPT !.op = op, !.track = k]
Noted(op, k, same) ==
    /\ call' = IF same /\ ~player_poisoned THEN Repeat(op, k) ELSE NoCall
    /\ UNCHANGED <<debug_assertions, disk, keyboard, buf, panicked>>
Untouched == call' = NoCall /\ UNCHANGED <<debug_assertions, disk, keyboard, buf, panicked>>

\* The history of a stopped recording is kept for one step.
Settled(h) == IF h.armed THEN h ELSE NoRec
Past == rec' = Settled(rec)

\* A control operation panics: the mutexes it holds are poisoned, the thread
\* that made the call unwinds and makes no further call.
ControlPanic(holds_player, holds_project) ==
    /\ control_panicked' = TRUE
    /\ player_poisoned' = (player_poisoned \/ holds_player)
    /\ project_poisoned' = (project_poisoned \/ holds_project)
    /\ UNCHANGED <<player_lock, project_lock, audio, audio_panicked>>

\* The callback panics: as above, and the callback does not run again.
AudioPanic(holds_project) ==
    /\ audio_panicked' = TRUE
    /\ audio' = AudioDead
    /\ player_poisoned' = TRUE
    /\ player_lock' = "free"
    /\ project_poisoned' = (project_poisoned \/ holds_project)
    /\ project_lock' = IF holds_project THEN "free" ELSE project_lock
    /\ UNCHANGED control_panicked

\* self.player.lock().unwrap() / self.project.lock().unwrap() can return
PlayerFree  == player_lock = "free"
ProjectFree == project_lock = "free"

\* Session::play
Play ==
    /\ ~control_panicked /\ PlayerFree
    /\ IF player_poisoned
       THEN ControlPanic(FALSE, FALSE) /\ UNCHANGED <<projectVars, playerVars>> /\ Past
       ELSE /\ playing_project' = TRUE
            /\ UNCHANGED <<projectVars, config_sample_rate, config_buffer_size, output_buf, time, recording,
                           record_track, record_start, record_buf, syncVars, threadVars>>
            /\ Past
    /\ Noted("play", 0, playing_project)

\* Session::pause
Pause ==
    /\ ~control_panicked /\ PlayerFree
    /\ IF player_poisoned
       THEN ControlPanic(FALSE, FALSE) /\ UNCHANGED <<projectVars, playerVars>> /\ Past
       ELSE /\ playing_project' = FALSE
            /\ UNCHANGED <<projectVars, config_sample_rate, config_buffer_size, output_buf, time, recording,
                           record_track, record_start, record_buf, syncVars, threadVars>>
            /\ Past
    /\ Noted("pause", 0, ~playing_project)

\* Session::seek -> Player::seek
Seek(t) ==
    /\ ~control_panicked /\ PlayerFree
    /\ IF player_poisoned
       THEN ControlPanic(FALSE, FALSE) /\ UNCHANGED <<projectVars, playerVars>> /\ Past
       ELSE /\ time' = t
            /\ UNCHANGED <<projectVars, config_sample_rate, config_buffer_size, output_buf, playing_project,
                           recording, record_track, record_start, record_buf, syncVars,
                           threadVars>>
            /\ rec' = IF rec.armed /\ t # time THEN [rec EXCEPT !.sought = TRUE]
                      ELSE Settled(rec)
    /\ Untouched

\* Session::set_recording -> Player::set_recording (-> write_recorded_clip).
\* A recording is armed while fewer than MaxRecorded recordings are stored.
SetRecording(r, k) ==
    /\ ~control_panicked /\ PlayerFree /\ ProjectFree
    /\ (r /\ ~recording) => StoredRecordings < MaxRecorded
    /\ IF player_poisoned
       THEN ControlPanic(FALSE, FALSE) /\ UNCHANGED <<projectVars, playerVars>> /\ Past
       ELSE IF set_recording_returns(recording, r)
       THEN UNCHANGED <<projectVars, playerVars, syncVars, threadVars>> /\ Past
       ELSE IF stores_recording(r, record_buf)
       THEN /\ recording' = FALSE
            /\ IF project_poisoned
               THEN /\ ControlPanic(TRUE, FALSE)
                    /\ rec' = NoRec
                    /\ UNCHANGED <<projectVars, record_buf>>
               ELSE IF record_track >= Len(tracks)
               THEN /\ ControlPanic(TRUE, TRUE)
                    /\ record_buf' = <<>>
                    /\ rec' = NoRec
                    /\ UNCHANGED projectVars
               ELSE LET w == write_recorded_clip(clips, tracks, record_track,
                                                 record_start, record_buf)
                    IN  /\ clips' = w.clips
                        /\ tracks' = w.tracks
                        /\ record_buf' = <<>>
                        /\ rec' = [rec EXCEPT !.armed = FALSE, !.done = TRUE]
                        /\ UNCHANGED <<sample_rate, generator, syncVars, threadVars>>
            /\ UNCHANGED <<config_sample_rate, config_buffer_size, output_buf,
                           playing_project, time, record_track, record_start>>
       ELSE IF r
       THEN /\ recording' = TRUE
            /\ record_start' = time
            /\ record_track' = k
            /\ record_buf' = <<>>
            /\ rec' = [armed |-> TRUE, time |-> time, track |-> k,
                       playing |-> playing_project, begin |-> 0, advanced |-> 0,
                       tape |-> <<>>, done |-> FALSE, sought |-> FALSE]
            /\ UNCHANGED <<projectVars, config_sample_rate, config_buffer_size, output_buf, playing_project,
                           time, syncVars, threadVars>>
       ELSE /\ recording' = FALSE
            /\ rec' = NoRec
            /\ UNCHANGED <<projectVars, config_sample_rate, config_buffer_size, output_buf, playing_project,
                           time, record_track, record_start, record_buf, syncVars,
                           threadVars>>
    /\ Noted("set_recording", k, recording = r)

\* A handle that reaches the generator without the project mutex.
HandleUnlocked(msg) ==
    /\ ~control_panicked
    /\ generator' = Generator_handle(generator, msg)
    /\ UNCHANGED <<clips, tracks, sample_rate, syncVars, threadVars>>
    /\ UNCHANGED playerVars /\ Past
    /\ Untouched

\* Session::handle
Handle(msg) ==
    /\ ~control_panicked /\ ProjectFree
    /\ IF project_poisoned
       THEN ControlPanic(FALSE, FALSE) /\ UNCHANGED projectVars
       ELSE /\ generator' = Generator_handle(generator, msg)
            /\ UNCHANGED <<clips, tracks, sample_rate, syncVars, threadVars>>
    /\ UNCHANGED playerVars /\ Past
    /\ Untouched

\* session.project.lock().unwrap().add_clip(track, time, Clip::new(data))
PlaceClip(k, at, data) ==
    /\ ~control_panicked /\ ProjectFree
    /\ k < Len(tracks) => Len(tracks[k + 1]) < MaxPlaced
    /\ IF project_poisoned
       THEN ControlPanic(FALSE, FALSE) /\ UNCHANGED projectVars
       ELSE IF ~(k < Len(tracks))
       THEN ControlPanic(FALSE, TRUE) /\ UNCHANGED projectVars
       ELSE LET r == Track_add_clip(clips, tracks[k + 1], at, data)
            IN  /\ clips' = r.clips
                /\ tracks' = [tracks EXCEPT ![k + 1] = r.track]
                /\ UNCHANGED <<sample_rate, generator, syncVars, threadVars>>
    /\ UNCHANGED playerVars /\ Past
    /\ Untouched

\* session.project.lock().unwrap().load_overwrite(path) of a saved empty
\* project; a failing load returns before the assignment.
Load ==
    /\ ~control_panicked /\ ProjectFree
    /\ NumClips > 0
    /\ IF project_poisoned
       THEN ControlPanic(FALSE, FALSE) /\ UNCHANGED projectVars
       ELSE /\ sample_rate' = DefaultSampleRate
            /\ tracks' = [k \in TrackIdx |-> <<>>]
            /\ clips' = <<>>
            /\ UNCHANGED <<generator, syncVars, threadVars>>
    /\ UNCHANGED playerVars /\ Past
    /\ Untouched

\* The callback of build_output_stream, first statement: player.lock().unwrap().
\* The host asks for a block of the fixed size it was configured with.
AudioLockPlayer ==
    /\ audio.pc = "idle" /\ PlayerFree
    /\ playing_project => time + config_buffer_size <= MaxPlayhead
    /\ (playing_project /\ recording) =>
            Len(record_buf) + config_buffer_size <= MaxPlayhead
    /\ IF player_poisoned
       THEN /\ audio_panicked' = TRUE
            /\ audio' = AudioDead
            /\ UNCHANGED <<syncVars, control_panicked>>
       ELSE /\ player_lock' = "audio"
            /\ audio' = [pc |-> "player_locked", n |-> config_buffer_size, i |-> 0,
                         gate |-> NoGate]
            /\ UNCHANGED <<project_lock, player_poisoned, project_poisoned,
                           audio_panicked, control_panicked>>
    /\ UNCHANGED <<projectVars, playerVars>> /\ Past
    /\ Untouched

\* A write_next_block that reads the project without locking it.
AudioSkipLockProject ==
    /\ audio.pc = "player_locked"
    /\ audio' = [audio EXCEPT !.pc = "render", !.gate = NoteState(generator)]
    /\ UNCHANGED <<syncVars, audio_panicked, control_panicked>>
    /\ UNCHANGED <<projectVars, playerVars>> /\ Past
    /\ Untouched

\* write_next_block, first statement: self.project.lock().unwrap()
AudioLockProject ==
    /\ audio.pc = "player_locked" /\ ProjectFree
    /\ IF project_poisoned
       THEN AudioPanic(FALSE)
       ELSE /\ project_lock' = "audio"
            /\ audio' = [audio EXCEPT !.pc = "render", !.gate = NoteState(generator)]
            /\ UNCHANGED <<player_lock, player_poisoned, project_poisoned,
                           audio_panicked, control_panicked>>
    /\ UNCHANGED <<projectVars, playerVars>> /\ Past
    /\ Untouched

\* write_next_block up to the sample loop: size and grow the scratch buffer,
\* render the timeline and move the playhead when playing, else silence.
AudioRender ==
    LET src  == src_samples(audio.n, sample_rate, config_sample_rate)
        ob   == resize(output_buf, src)
        r    == Timeline_render(clips, tracks, time, SubSeq(ob, 1, src), debug_assertions)
    IN  /\ audio.pc = "render"
        /\ IF playing_project /\ (Len(tracks) = 0 \/ r.panic)
           THEN /\ AudioPanic(TRUE)
                /\ output_buf' = ob
                /\ UNCHANGED time /\ Past
           ELSE /\ IF playing_project
                   THEN /\ output_buf' = r.buf \o SubSeq(ob, src + 1, Len(ob))
                        /\ time' = advance(time, src, Timeline_len(clips, tracks), recording)
                        /\ rec' = IF recording
                                  THEN [rec EXCEPT !.advanced = @ + src,
                                                   !.begin = IF rec.advanced = 0
                                                             THEN time ELSE @]
                                  ELSE Settled(rec)
                   ELSE /\ output_buf' = Fill(Len(ob), 0)
                        /\ UNCHANGED time /\ Past
                /\ audio' = [audio EXCEPT !.pc = "pull", !.i = 0]
                /\ UNCHANGED <<syncVars, audio_panicked, control_panicked>>
        /\ UNCHANGED <<projectVars, config_sample_rate, config_buffer_size,
                       playing_project, recording, record_track, record_start, record_buf>>
        /\ Untouched

\* One turn of the sample loop: pull a sample, add it to the scratch buffer
\* and clamp, and push it to record_buf when playing and recording.
AudioPull ==
    LET src   == src_samples(audio.n, sample_rate, config_sample_rate)
        g     == Generator_next(generator)
        i     == audio.i + 1
        mixed == clamp(output_buf[i] + g.sample)
    IN  /\ audio.pc = "pull" /\ audio.i < src
        /\ generator' = g.gen
        /\ output_buf' = [output_buf EXCEPT ![i] = mixed]
        /\ IF playing_project /\ recording
           THEN /\ record_buf' = record_push(record_buf, g.sample, mixed)
                /\ rec' = [rec EXCEPT !.tape = Append(@, g.sample)]
           ELSE UNCHANGED record_buf /\ Past
        /\ audio' = [audio EXCEPT !.i = i]
        /\ UNCHANGED <<clips, tracks, sample_rate, config_sample_rate,
                       config_buffer_size, playing_project,
                       time, recording, record_track, record_start, syncVars,
                       audio_panicked, control_panicked>>
        /\ Untouched

\* write_next_block after the loop: write the block out (Linear::new indexes
\* output_buf[0] and [1] when the rates differ) and return, dropping both
\* guards.
AudioWrite ==
    LET src == src_samples(audio.n, sample_rate, config_sample_rate)
    IN  /\ audio.pc = "pull" /\ audio.i = src
        /\ IF sample_rate # config_sample_rate /\ Len(output_buf) < 2
           THEN AudioPanic(project_lock = "audio")
           ELSE /\ audio' = AudioIdle
                /\ player_lock' = "free"
                /\ project_lock' = IF project_lock = "audio" THEN "free" ELSE project_lock
                /\ UNCHANGED <<player_poisoned, project_poisoned, audio_panicked,
                               control_panicked>>
        /\ UNCHANGED <<projectVars, playerVars>> /\ Past
        /\ Untouched

Control ==
    \/ Play
    \/ Pause
    \/ \E t \in SeekTimes : Seek(t)
    \/ \E r \in BOOLEAN, k \in RecordTracks : SetRecording(r, k)
    \/ \E msg \in Messages : Handle(msg)
    \/ \E k \in PlaceTracks, c \in Placements : PlaceClip(k, c.at, c.data)
    \/ Load

Audio ==
    \/ AudioLockPlayer
    \/ AudioLockProject
    \/ AudioRender
    \/ AudioPull
    \/ AudioWrite

Next == Control \/ Audio

Spec == Init /\ [][Next]_vars

\* ---------------------------------------------------- the computer keyboard
\* OpApplication::update, OpMessage::InputEvent: held_keys takes the key in or
\* out, keyboard.update(&held_keys) gives the messages, and session.handle is
\* called with each in turn. The keys offered are the first and the last of
\* SCALE and the two octave keys; base stays within MaxOctaves octaves of its
\* first value. `call` keeps, for every note key held, the note its NoteOn
\* carried, and notes the key released with the NoteOff sent for it.
MaxOctaves == 1
KeyCodes == {SCALE[1], SCALE[Len(SCALE)], OCTAVE_UP, OCTAVE_DOWN}

RECURSIVE HandleAll(_, _)
HandleAll(g, msgs) ==
    IF msgs = <<>> THEN g ELSE HandleAll(Generator_handle(g, Head(msgs)), Tail(msgs))

NoteMessages(type, order) == [i \in DOMAIN order |-> [type |-> type, key |-> order[i]]]

InputEvent(key, pressed) ==
    LET held == IF pressed THEN keyboard.keys_held \cup {key} ELSE keyboard.keys_held \ {key}
        u    == Keyboard_update(keyboard, held)
    IN  /\ u.keyboard.base <= BaseNote + MaxOctaves * SemitonesPerOctave
        /\ u.keyboard.base >= BaseNote - MaxOctaves * SemitonesPerOctave
        /\ keyboard' = u.keyboard
        /\ \E ons \in Orders(u.notes_on), offs \in Orders(u.notes_off) :
               generator' = HandleAll(generator, NoteMessages("NoteOn", ons)
                                                     \o NoteMessages("NoteOff", offs))
        /\ call' = [NoCall EXCEPT
                        !.op = IF pressed THEN "key_pressed" ELSE "key_released",
                        !.n = IF u.notes_off = {} THEN 0 ELSE CHOOSE x \in u.notes_off : TRUE,
                        !.arg = {s \in call.arg : s.key \in held /\ s.key # key}
                                    \cup {[key |-> key, note |-> x] : x \in u.notes_on}
                                    \cup (IF pressed THEN {s \in call.arg : s.key = key} ELSE {}),
                        !.track = IF \E s \in call.arg : s.key = key /\ ~pressed
                                  THEN (CHOOSE s \in call.arg : s.key = key).note
                                  ELSE 0]
        /\ UNCHANGED <<clips, tracks, debug_assertions, disk, buf, panicked, sample_rate,
                       playerVars, syncVars, threadVars, rec>>

KeyPressed(key) ==
    /\ key \in KeyCodes
    /\ InputEvent(key, TRUE)

KeyReleased(key) ==
    /\ key \in KeyCodes
    /\ InputEvent(key, FALSE)

NextKeyboard ==
    \/ \E key \in KeyCodes : KeyPressed(key)
    \/ \E key \in KeyCodes : KeyReleased(key)

SpecKeyboard == InitTrack /\ [][NextKeyboard]_vars

\* ------------------------------------------------------ the view and locks
\* OpApplication::view, first statement: self.session.project.read().unwrap().
\* The guard lives to the end of view. While it is held the project lock
\* belongs to "ui" and the UI thread makes no other call.
ViewLockProject ==
    /\ ~control_panicked /\ ProjectFree
    /\ IF project_poisoned
       THEN ControlPanic(FALSE, FALSE)
       ELSE /\ project_lock' = "ui"
            /\ UNCHANGED <<player_lock, player_poisoned, project_poisoned, threadVars>>
    /\ UNCHANGED <<projectVars, playerVars>> /\ Past
    /\ Untouched

\* The rest of view: self.session.time() locks the player, reads the playhead
\* and unlocks; the tracks are read and the project guard is dropped. A
\* poisoned player mutex makes the unwrap panic, and whether the unwinding
\* thread poisons the project lock depends on the kind of guard it holds.
ViewTime ==
    /\ project_lock = "ui" /\ PlayerFree
    /\ project_lock' = "free"
    /\ IF player_poisoned
       THEN /\ control_panicked' = TRUE
            /\ project_poisoned' \in BOOLEAN
       ELSE UNCHANGED <<control_panicked, project_poisoned>>
    /\ UNCHANGED <<player_lock, player_poisoned, audio, audio_panicked>>
    /\ UNCHANGED <<projectVars, playerVars>> /\ Past
    /\ Untouched

UiIdle == project_lock # "ui"

NextLocks ==
    \/ UiIdle /\ Play
    \/ UiIdle /\ Pause
    \/ \E t \in SeekTimes : UiIdle /\ Seek(t)
    \/ \E r \in BOOLEAN, k \in RecordTracks : UiIdle /\ SetRecording(r, k)
    \/ \E msg \in Messages : UiIdle /\ Handle(msg)
    \/ ViewLockProject
    \/ ViewTime
    \/ Audio

SpecLocks == Init /\ [][NextLocks]_vars

\* ------------------------------------------------- sample-rate conversion
\* The block size computation of write_next_block on its own: a project rate
\* and a host rate are set up, then blocks of every size are asked for.
\* `call` notes the frames asked for and the source samples computed.
MaxBlock == 8
Rates == {DefaultSampleRate \div 2, DefaultSampleRate, 48000, 2 * DefaultSampleRate}

\* A project of sample rate rs played on a host stream of sample rate rd.
Configure(rs, rd) ==
    /\ Idle
    /\ sample_rate' = rs
    /\ config_sample_rate' = rd
    /\ UNCHANGED <<clips, tracks, debug_assertions, disk, keyboard, call, buf, panicked, generator,
                   config_buffer_size, output_buf, playing_project, time, recording,
                   record_track, record_start, record_buf, syncVars, threadVars, rec>>

\* The first lines of write_next_block for an output of n frames.
SourceSamples(n) ==
    /\ call' = [NoCall EXCEPT !.op = "src_samples", !.n = n,
                              !.start_time = src_samples(n, sample_rate, config_sample_rate)]
    /\ UNCHANGED <<clips, tracks, debug_assertions, disk, keyboard, buf, panicked, sessionVars>>

NextResample ==
    \/ \E rs, rd \in Rates : Configure(rs, rd)
    \/ \E n \in 1..MaxBlock : SourceSamples(n)

SpecResample == InitTrack /\ [][NextResample]_vars

\* ------------------------------------------------------- importing a WAV
\* The files offered: one sample of either width, at either sample rate.
WavFiles ==
    UNION {[sample_rate : SampleRates, bits : {b}, channels : {1}, pcm : [1..1 -> Pcm(b)]] :
               b \in BitsPerSample}

\* Project loadWav: Clip::load_wav(&project, path), and the clip read is
\* added to the store. `call` notes the file's rate and how the load ended.
ImportWav(wav) ==
    LET r == Clip_load_wav(sample_rate, wav, debug_assertions)
    IN  /\ ~panicked
        /\ NumClips < MaxMixClips
        /\ panicked' = (r.result = "panic")
        /\ clips' = IF r.result = "ok" THEN add(clips, r.data) ELSE clips
        /\ call' = [NoCall EXCEPT !.op = "import", !.n = wav.sample_rate, !.arg = {r.result}]
        /\ UNCHANGED <<tracks, debug_assertions, disk, keyboard, buf, sessionVars>>

NextImport ==
    \/ \E rate \in SampleRates : LoadProject(rate)
    \/ \E wav \in WavFiles : ImportWav(wav)

SpecImport == InitTrack /\ [][NextImport]_vars

\* ------------------------------------------------------- loading a project
\* What the chosen directory holds: no project.json, one that serde_json
\* rejects, or the project.json of an empty project of some sample rate.
ProjectFiles ==
    [state : {"missing", "malformed"}, sample_rate : {0}]
        \cup [state : {"ok"}, sample_rate : SampleRates]

\* Project::load: read_to_string fails with IoError, from_str with
\* LoadProjectError; otherwise the project read.
Project_load(file) ==
    IF file.state = "ok"
    THEN [ok |-> TRUE, sample_rate |-> file.sample_rate, tracks |-> [k \in TrackIdx |-> <<>>],
          clips |-> <<>>]
    ELSE [ok |-> FALSE, sample_rate |-> 0, tracks |-> <<>>, clips |-> <<>>]

\* session.project.lock().unwrap().load_overwrite(path): `?` returns the
\* error before `*self = new`.
LoadOverwrite(file) ==
    LET r == Project_load(file)
    IN  /\ ~control_panicked /\ ProjectFree
        /\ IF project_poisoned
           THEN ControlPanic(FALSE, FALSE) /\ UNCHANGED projectVars
           ELSE /\ IF r.ok
                   THEN /\ sample_rate' = r.sample_rate
                        /\ tracks' = r.tracks
                        /\ clips' = r.clips
                   ELSE UNCHANGED <<sample_rate, tracks, clips>>
                /\ UNCHANGED <<generator, syncVars, threadVars>>
        /\ UNCHANGED playerVars /\ Past
        /\ call' = [NoCall EXCEPT !.op = "load_overwrite", !.arg = {file.state}]
        /\ UNCHANGED <<debug_assertions, disk, keyboard, buf, panicked>>

\* OpApplication::update, OpMessage::Load with a folder picked:
\* Project::load(&path).unwrap(), then a new session around the project read
\* replaces the current one.
AppLoad(file) ==
    LET r == Project_load(file)
    IN  /\ ~control_panicked
        /\ IF ~r.ok
           THEN ControlPanic(FALSE, FALSE) /\ UNCHANGED <<projectVars, playerVars>> /\ Past
           ELSE /\ sample_rate' = r.sample_rate
                /\ tracks' = r.tracks
                /\ clips' = r.clips
                /\ generator' = SineGenerator_new
                /\ output_buf' = Fill(config_buffer_size, 0)
                /\ playing_project' = FALSE
                /\ time' = 0
                /\ recording' = FALSE
                /\ record_track' = 0
                /\ record_start' = 0
                /\ record_buf' = <<>>
                /\ player_lock' = "free"
                /\ project_lock' = "free"
                /\ player_poisoned' = FALSE
                /\ project_poisoned' = FALSE
                /\ audio' = AudioIdle
                /\ rec' = NoRec
                /\ UNCHANGED <<config_sample_rate, config_buffer_size, audio_panicked,
                               control_panicked>>
        /\ call' = [NoCall EXCEPT !.op = "app_load", !.arg = {file.state}]
        /\ UNCHANGED <<debug_assertions, disk, keyboard, buf, panicked>>

NextLoad ==
    \/ Play
    \/ Pause
    \/ \E t \in SeekTimes : Seek(t)
    \/ \E k \in PlaceTracks, c \in Placements : PlaceClip(k, c.at, c.data)
    \/ \E file \in ProjectFiles : LoadOverwrite(file)
    \/ \E file \in ProjectFiles : AppLoad(file)

SpecLoad == Init /\ [][NextLoad]_vars

\* ------------------------------------------------- claims on Track::render
\* The track, the window and the instances of the render call just made.
Rendered  == call.op = "track_render"
TheTrack  == tracks[call.track]
WinTime(i) == call.start_time + (i - 1)      \* the time of buf[i]
InWindow  == 1..call.n

Resolves(db, track) == \A i \in 1..Len(track) : HasClip(db, track[i].clip_id)

\* Instance c plays at time t, and the sample it plays there.
Covers(db, c, t) == HasClip(db, c.clip_id) /\ start(c) <= t /\ t < end(db, c)
SampleOf(db, c, t) == db[c.clip_id][(t - c.time) + 1]

Horizon == 0..(MaxTime + MaxClipLen + MaxBuf + 1)

NonOverlapping(db, track) ==
    \A i, j \in 1..Len(track) :
        i # j => \A t \in Horizon : ~(Covers(db, track[i], t) /\ Covers(db, track[j], t))

\* What a track without overlaps plays at time t.
PlainSample(db, track, t) ==
    IF \E i \in 1..Len(track) : Covers(db, track[i], t)
    THEN SampleOf(db, track[CHOOSE i \in 1..Len(track) : Covers(db, track[i], t)], t)
    ELSE 0

\* C1: for a track whose instances do not overlap, render leaves in buf[i]
\* the sample of the instance covering time start+i, and 0 where no instance
\* covers it, for every window start and buffer length.
C1_NonOverlapRender ==
    (Rendered /\ Resolves(clips, TheTrack) /\ NonOverlapping(clips, TheTrack)) =>
        /\ ~panicked
        /\ Len(buf) = call.n
        /\ \A i \in InWindow : buf[i] = PlainSample(clips, TheTrack, WinTime(i))

\* C1 on the tracks all of whose clips hold at least one sample.
NonEmptyClips(db, track) == \A i \in 1..Len(track) : inst_len(db, track[i]) > 0

C1_NonEmptyNonOverlapRender ==
    (/\ Rendered /\ Resolves(clips, TheTrack) /\ NonEmptyClips(clips, TheTrack)
     /\ NonOverlapping(clips, TheTrack)) => C1_NonOverlapRender

\* C1's case: two clips without overlap, a window that begins inside the
\* first, holds the second and runs past the last.
C1_Witness ==
    /\ Rendered /\ ~panicked
    /\ Len(TheTrack) = 2
    /\ Resolves(clips, TheTrack) /\ NonOverlapping(clips, TheTrack)
    /\ start(TheTrack[1]) < call.start_time
    /\ Covers(clips, TheTrack[1], call.start_time)
    /\ start(TheTrack[2]) > call.start_time
    /\ inst_len(clips, TheTrack[2]) > 0
    /\ call.start_time + call.n > Track_len(clips, TheTrack)
    /\ buf[1] = SampleOf(clips, TheTrack[1], call.start_time)
    /\ buf[call.n] = 0

\* The track is exactly A then B (in insertion order), both resolved.
PairAB == Rendered /\ Len(TheTrack) = 2 /\ Resolves(clips, TheTrack)
A == TheTrack[1]
B == TheTrack[2]

\* C2: B inserted after A, starting strictly inside A and ending at or after
\* A's end; a window starting at or before A's start holds A's samples up to
\* B's start, B's samples from B's start to B's end, then 0.
C2_Shape ==
    /\ PairAB
    /\ start(A) < start(B) /\ start(B) < end(clips, A)
    /\ end(clips, B) >= end(clips, A)
    /\ call.start_time <= start(A)

C2_LaterDominates ==
    C2_Shape =>
        /\ ~panicked
        /\ Len(buf) = call.n
        /\ \A i \in InWindow :
              buf[i] = IF WinTime(i) < start(A) THEN 0
                       ELSE IF WinTime(i) < start(B) THEN SampleOf(clips, A, WinTime(i))
                       ELSE IF WinTime(i) < end(clips, B) THEN SampleOf(clips, B, WinTime(i))
                       ELSE 0

C2_Witness ==
    /\ C2_Shape
    /\ call.start_time + call.n > end(clips, B)
    /\ buf[(start(A) - call.start_time) + 1] = SampleOf(clips, A, start(A))
    /\ buf[(start(B) - call.start_time) + 1] = SampleOf(clips, B, start(B))
    /\ buf[call.n] = 0

\* C3's case: a short B, inserted after A, starts inside A and ends before
\* A's end; the window starts at or before A's start.
C3_Shape ==
    /\ PairAB
    /\ start(A) < start(B) /\ end(clips, B) < end(clips, A)
    /\ inst_len(clips, B) > 0
    /\ call.start_time <= start(A)

\* C3 as claimed: the rendered samples after B's end are silence.
C3_SilenceAfterShort ==
    C3_Shape =>
        \A i \in InWindow : WinTime(i) >= end(clips, B) => buf[i] = 0

\* C3 as the code has it: A's samples up to B's start, B's samples over B's
\* range, A's remaining samples from B's end to A's end, then 0.
C3_ResumesAfterShort ==
    C3_Shape =>
        /\ ~panicked
        /\ Len(buf) = call.n
        /\ \A i \in InWindow :
              buf[i] = IF WinTime(i) < start(A) THEN 0
                       ELSE IF WinTime(i) < start(B) THEN SampleOf(clips, A, WinTime(i))
                       ELSE IF WinTime(i) < end(clips, B) THEN SampleOf(clips, B, WinTime(i))
                       ELSE IF WinTime(i) < end(clips, A) THEN SampleOf(clips, A, WinTime(i))
                       ELSE 0

C3_Witness ==
    /\ C3_Shape
    /\ call.start_time + call.n >= end(clips, A)
    /\ buf[(start(B) - call.start_time) + 1] = SampleOf(clips, B, start(B))
    /\ buf[(end(clips, B) - call.start_time) + 1] = SampleOf(clips, A, end(clips, B))

\* C4: of two overlapping instances the later inserted one (B) determines
\* every rendered sample of the overlap, whichever starts earlier and
\* wherever the window begins.
C4_LaterPlacedWins ==
    PairAB =>
        \A i \in InWindow :
            (Covers(clips, A, WinTime(i)) /\ Covers(clips, B, WinTime(i))) =>
                (~panicked /\ buf[i] = SampleOf(clips, B, WinTime(i)))

\* C5: a render of the window [s, s+n) equals the same stretch of one render
\* from 0 over s+n samples.
C5_WindowIndependent ==
    (Rendered /\ ~panicked) =>
        LET full == Track_render(clips, TheTrack, 0,
                                 Fill(call.start_time + call.n, Garbage), debug_assertions)
        IN  ~full.panic =>
                \A i \in InWindow : buf[i] = full.buf[call.start_time + i]

\* ------------------------------------------------------ claims on Timeline
TimelineRendered == call.op = "timeline_render"
Mixed == call.op = "mix"

\* Track k's own render of the window of the call.
OwnRender(k) ==
    Track_render(clips, tracks[k], call.start_time, Fill(call.n, Garbage), debug_assertions)

RECURSIVE SumOfTracks(_, _)
SumOfTracks(S, i) ==
    IF S = {} THEN 0
    ELSE LET k == CHOOSE x \in S : TRUE
         IN  OwnRender(k).buf[i] + SumOfTracks(S \ {k}, i)

Clamped(x) == IF x > One THEN One ELSE IF x < 0 - One THEN 0 - One ELSE x

\* What source src adds to sample i of a mix.
Share(src, i) == IF i <= Len(src) THEN src[i] ELSE 0

StopStep == recording /\ ~recording'
ArmedTrackInRange == rec.track < Len(tracks)

\* The instance that a step appended to track k (a TLA+ index), if it did.
Appended(k) == tracks'[k][Len(tracks'[k])]
AppendsOne(k) ==
    /\ Len(tracks'[k]) = Len(tracks[k]) + 1
    /\ SubSeq(tracks'[k], 1, Len(tracks[k])) = tracks[k]

\* C7: when recording was armed for track k while the player was playing and
\* the playhead then advanced N > 0 samples under produce, the step that
\* turns recording off appends exactly one instance to track k, at the
\* playhead of the arming, of a new clip of N samples, and leaves every other
\* track as it was.
C7_RecordingPlacesOneInstance ==
    [][(StopStep /\ rec.playing /\ rec.advanced > 0 /\ ArmedTrackInRange)
        => /\ AppendsOne(rec.track + 1)
           /\ Appended(rec.track + 1).time = rec.time
           /\ ~HasClip(clips, Appended(rec.track + 1).clip_id)
           /\ HasClip(clips', Appended(rec.track + 1).clip_id)
           /\ Len(clips'[Appended(rec.track + 1).clip_id]) = rec.advanced
           /\ \A j \in TrackIdx \ {rec.track + 1} : tracks'[j] = tracks[j]]_vars

\* A recording armed at a playhead past 0 while playing, taken over more than
\* one callback, has just been stored next to a clip placed on another track.
C7_Witness ==
    /\ rec.done /\ rec.playing
    /\ rec.time > 0
    /\ rec.advanced > config_buffer_size
    /\ tracks[1] # <<>>
    /\ \E i \in 1..Len(tracks[rec.track + 1]) :
          /\ tracks[rec.track + 1][i].time = rec.time
          /\ Len(clips[tracks[rec.track + 1][i].clip_id]) = rec.advanced

\* C8: the clip that the end of a recording adds to the database holds the
\* generator samples pulled while playing and recording since the arming, in
\* the order they were pulled, and the clips stored before are unchanged.
C8_RecordedClipIsTape ==
    [][(StopStep /\ DOMAIN clips' # DOMAIN clips)
        => /\ DOMAIN clips' = DOMAIN clips \cup {add_id(clips)}
           /\ clips'[add_id(clips)] = rec.tape
           /\ \A id \in DOMAIN clips : clips'[id] = clips[id]]_vars

\* A recording of two different samples, pulled in more than one callback
\* over a placed clip that sounds at the arming playhead, has just been stored.
C8_Witness ==
    /\ rec.done
    /\ Len(rec.tape) > config_buffer_size
    /\ rec.tape[1] # rec.tape[2]
    /\ clips[NumClips - 1] = rec.tape
    /\ \E i \in 1..Len(tracks[1]) :
          /\ Covers(clips, tracks[1][i], rec.time)
          /\ SampleOf(clips, tracks[1][i], rec.time) # 0

\* C9: the audio callback never panics.
C9_CallbackNeverPanics == ~audio_panicked

\* C10: from the moment produce holds the project until it returns, no step
\* changes the timeline, the clips, the sample rate or the note state of the
\* instrument; the instrument's phase moves only as the callback pulls.
InProduce == audio.pc \in {"render", "pull"}

C10_ProjectStableInProduce ==
    [][InProduce
        => /\ tracks' = tracks
           /\ clips' = clips
           /\ sample_rate' = sample_rate
           /\ generator'.on = generator.on
           /\ generator'.note = generator.note
           /\ (generator'.phase # generator.phase => audio'.i = audio.i + 1)]_vars

\* A callback is inside its sample loop, playing a project that holds a clip,
\* with the control thread alive.
C10_Witness ==
    /\ audio.pc = "pull" /\ audio.i >= 1 /\ audio.i < audio.n
    /\ project_lock = "audio"
    /\ playing_project /\ generator.on
    /\ NumClips > 0
    /\ ~control_panicked

\* C11: a note event is never applied inside produce: from the moment produce
\* holds the project until it returns the note state is the one found at that
\* moment, every sample of the block is pulled under it, and a step that
\* changes the note state is taken with the callback outside produce, so that
\* the next block starts under the changed state.
PullStep == audio.pc = "pull" /\ audio'.pc = "pull" /\ audio'.i = audio.i + 1
UnderGate(g, gate) == [g EXCEPT !.on = gate.on, !.note = gate.note]

C11_NoteStateFixedInProduce ==
    [][/\ InProduce => NoteState(generator) = audio.gate
       /\ PullStep => generator' = Generator_next(UnderGate(generator, audio.gate)).gen
       /\ NoteState(generator') # NoteState(generator) => ~InProduce /\ audio' = audio]_vars

\* A second callback is in its sample loop and every sample it has pulled so
\* far is the first that sounded: the note was turned on after the callback
\* before it, which pulled silence.
C11_Witness ==
    /\ audio.pc = "pull" /\ audio.i >= 1
    /\ playing_project /\ time > audio.n
    /\ generator.on /\ generator.phase = audio.i
    /\ audio.gate = NoteState(generator)

\* C12: the step of produce that renders moves the playhead, when playing, to
\* playhead + sourceN, or to 0 exactly when that sum is strictly greater than
\* the timeline's length and recording is off; when not playing it leaves the
\* playhead alone; no other step of produce moves the playhead, and produce
\* never decreases it while recording is on.
RenderStep == audio.pc = "render" /\ audio'.pc = "pull"
SourceN == (audio.n * sample_rate) \div config_sample_rate

C12_PlayheadAdvance ==
    [][/\ (RenderStep /\ playing_project)
          => /\ (time + SourceN > Timeline_len(clips, tracks) /\ ~recording) => time' = 0
             /\ ~(time + SourceN > Timeline_len(clips, tracks) /\ ~recording)
                   => time' = time + SourceN
       /\ (RenderStep /\ ~playing_project) => time' = time
       /\ (InProduce /\ ~RenderStep) => time' = time
       /\ (InProduce /\ recording) => time' >= time]_vars

\* A callback has just played exactly to the end of a timeline that holds a
\* clip, with recording off, and the playhead stands at the end, not at 0.
C12_Witness ==
    /\ audio.pc = "pull" /\ audio.i = 0
    /\ playing_project /\ ~recording
    /\ time > 0
    /\ time = Timeline_len(clips, tracks)

\* C13: a play made while playing, a pause made while paused and a
\* set_recording(x, k) made while recording equals x leave the project, every
\* field of the player, both mutexes and both threads as they were.
RepeatedCall == call'.op \in {"play", "pause", "set_recording"}

C13_RepeatedCallChangesNothing ==
    [][RepeatedCall => UNCHANGED <<projectVars, playerVars, syncVars, threadVars>>]_vars

\* set_recording(true, k2) has just been called during a recording that was
\* armed for another track at a playhead past 0 and has captured samples.
C13_Witness ==
    /\ call.op = "set_recording" /\ call.track # record_track
    /\ recording /\ record_buf # <<>> /\ record_start > 0
    /\ playing_project

\* C14: the step that turns recording off while the record buffer is empty
\* stores no clip and places no instance, for any armed track index: the
\* clips and the tracks are as they were, no mutex is poisoned and the call
\* does not panic.
C14_EmptyRecordingDiscarded ==
    [][(StopStep /\ record_buf = <<>>)
        => /\ clips' = clips
           /\ tracks' = tracks
           /\ UNCHANGED <<syncVars, threadVars>>]_vars

\* A recording armed for a track index past the end was stopped and the call
\* returned (a stop with samples panics on that index), next to a placed clip.
C14_Witness ==
    /\ ~recording /\ record_buf = <<>>
    /\ record_track = NumTracks
    /\ ~control_panicked /\ ~player_poisoned
    /\ tracks[1] # <<>>

\* C15: a recording armed while the player was idle is placed, when it ends
\* with samples, at the playhead where its first sample was captured.
C15_PlacedWhereCaptureBegan ==
    [][(StopStep /\ ~rec.playing /\ rec.advanced > 0 /\ ArmedTrackInRange
            /\ DOMAIN clips' # DOMAIN clips)
        => Appended(rec.track + 1).time = rec.begin]_vars

\* C16: Track::render on a track with instances of absent clips returns, and
\* leaves the buffer that it leaves for the same track without those
\* instances.
Present(db, track) == SelectSeq(track, LAMBDA c : HasClip(db, c.clip_id))

C16_DanglingSkipped ==
    Rendered
    => /\ ~panicked
       /\ buf = Track_render(clips, Present(clips, TheTrack), call.start_time,
                             Fill(call.n, Garbage), debug_assertions).buf

\* C17: ClipDatabase::add returns an id that no stored clip has, and every
\* clip stored before the add is still stored under its id, unchanged, after
\* it; this holds for a fresh store and for one read back from project.json.
C17_AddKeepsEarlierClips ==
    [][call'.op = "add"
       => /\ call'.n \notin DOMAIN clips
          /\ call'.n \in DOMAIN clips'
          /\ \A id \in DOMAIN clips : id \in DOMAIN clips' /\ clips'[id] = clips[id]]_vars
C17_Witness ==
    /\ call.op = "add"
    /\ "restored" \in call.arg
    /\ NumClips = MaxStore
    /\ Len(disk.json.clips) = MaxStore - 1

\* C18: after Track::render of a track that holds clips loaded from WAV files
\* and recorded clips, every sample of the buffer lies in [-1, 1].
C18_RenderedInUnitRange ==
    (Rendered /\ ~panicked) => \A i \in InWindow : 0 - Unit <= buf[i] /\ buf[i] <= Unit

\* C19: the note policy is monophonic, last note wins. NoteOn(key) makes key
\* the last key and opens the gate; NoteOff(key) closes the gate only when key
\* is the last key; any other message leaves the note state as it was. So
\* after NoteOn(a), NoteOn(b), NoteOff(a) with a # b the gate is still open.
Newest(history) == (CHOOSE h \in history : h.age = 1).msg
HeardInOrder(m3, m2, m1) ==
    {[age |-> 3, msg |-> m3], [age |-> 2, msg |-> m2], [age |-> 1, msg |-> m1]} \subseteq call.arg
OnOnOff(a, b) ==
    HeardInOrder([type |-> "NoteOn", key |-> a], [type |-> "NoteOn", key |-> b],
                 [type |-> "NoteOff", key |-> a])
C20_ExportAtProjectRate ==
    (call.op = "export" /\ ~panicked) => disk.wav.sample_rate = sample_rate
\* ------------------------------------------------- claims on the application
\* C21: a move never leaves an instance at a negative or wrapped-around
\* time: the instance ends at its time plus the delta, or at 0 when that sum
\* is below 0.
Moved == call.op = "move" /\ call.n > 0 /\ ~panicked
MoveDelta == CHOOSE d \in call.arg : TRUE
C21_MoveClampsAtZero ==
    Moved => tracks[call.track][call.n].time = Max({0, call.start_time + MoveDelta})
\* C22: a load that fails (project.json missing or malformed) returns an
\* error, and leaves the project and the player as they were.
FailedLoad == call'.op \in {"load_overwrite", "app_load"} /\ call'.arg # {"ok"}
C22_FailedLoadChangesNothing ==
    [][FailedLoad
       => /\ control_panicked' = control_panicked
          /\ UNCHANGED <<projectVars, playerVars>>]_vars
\* C23: importing a WAV whose sample rate is not the project's returns an
\* error, adds no clip and changes nothing of the project.
MismatchedImport == call'.op = "import" /\ call'.n # sample_rate
C23_MismatchedImportFails ==
    [][MismatchedImport
       => /\ call'.arg = {"error"}
          /\ UNCHANGED projectVars]_vars
\* ------------------------------------------ further claims on Track::render
\* C24: a short B, inserted after A and lying strictly inside A's range; a
\* render whose window starts at A's start holds A's samples before B, B's
\* samples over B's range and A's samples again after B's end.
C24_Shape ==
    /\ PairAB
    /\ inst_len(clips, B) > 0
    /\ start(A) < start(B) /\ end(clips, B) < end(clips, A)
    /\ call.start_time = start(A)
C24_ShortInsideLong ==
    C24_Shape =>
        /\ ~panicked
        /\ \A i \in InWindow :
              buf[i] = IF Covers(clips, B, WinTime(i)) THEN SampleOf(clips, B, WinTime(i))
                       ELSE IF Covers(clips, A, WinTime(i)) THEN SampleOf(clips, A, WinTime(i))
                       ELSE 0
C24_Witness ==
    /\ C24_Shape
    /\ call.n = inst_len(clips, A)
    /\ buf[1] = SampleOf(clips, A, start(A))
    /\ buf[(start(B) - start(A)) + 1] = SampleOf(clips, B, start(B))
    /\ buf[call.n] = SampleOf(clips, A, end(clips, A) - 1)
\* C25: of the instances that cover the window's start (an instance whose
\* clip is absent covers nothing) the most recently inserted one fills the
\* beginning of the buffer, from clip offset start_time - start, for as long as
\* its clip and the buffer last; where it ends, nothing more is copied from
\* it. The beginning of the buffer is the stretch before the first instance
\* that starts after the window's start.
Covering == {i \in 1..Len(TheTrack) : Covers(clips, TheTrack[i], call.start_time)}
Latest == TheTrack[Max(Covering)]
Beginning ==
    {i \in InWindow :
        \A j \in 1..Len(TheTrack) :
            ~(call.start_time < start(TheTrack[j]) /\ start(TheTrack[j]) <= WinTime(i))}
C26_Shape ==
    /\ PairAB /\ ~panicked
    /\ start(A) = start(B)
    /\ inst_len(clips, A) > 0 /\ inst_len(clips, B) > 0
    /\ call.start_time <= start(B) /\ start(B) < call.start_time + call.n
C26_SameStartLaterWins ==
    C26_Shape =>
        \A i \in InWindow :
            Covers(clips, B, WinTime(i)) => buf[i] = SampleOf(clips, B, WinTime(i))
\* ------------------------------------------------ further claims on Player
\* C27: for N host frames, project rate Rs and host rate Rd the number of
\* source samples rendered is N * Rs / Rd rounded to the nearest integer.
Round(num, den) == (2 * num + den) \div (2 * den)
C27_SourceSamplesRounded ==
    call.op = "src_samples"
    => call.start_time = Round(call.n * sample_rate, config_sample_rate)
\* C28: the audio thread and the UI thread never wait for each other: the
\* callback is never left holding the player lock and asking for the project
\* lock while the view holds the project lock and asks for the player lock.
AudioWaitsForProject == audio.pc = "player_locked" /\ player_lock = "audio" /\ ~ProjectFree
ViewWaitsForPlayer   == project_lock = "ui" /\ ~PlayerFree
C28_NoCircularWait == ~(AudioWaitsForProject /\ ViewWaitsForPlayer)
\* C29: while recording is on and no seek has moved the playhead since
\* arming, record_buf holds playhead - record_start samples whenever no
\* callback is under way: after a callback while playing, after one while
\* paused, after play and after pause.
NoCallback == audio.pc = "idle"
C29_RecordBufferSpansToPlayhead ==
    (recording /\ rec.armed /\ ~rec.sought /\ NoCallback)
    => Len(record_buf) = time - record_start
C29_Witness ==
    /\ recording /\ rec.armed /\ ~rec.sought /\ NoCallback
    /\ ~playing_project
    /\ record_start > 0
    /\ Len(record_buf) > 0
    /\ time = record_start + Len(record_buf)
\* ------------------------------------------------- claims on the keyboard
\* C30: the NoteOff sent when a key is released carries the note of the
\* NoteOn sent when that key was pressed, octave keys pressed in between or
\* not; and with every key released the generator's gate is off.
ReleasedNoteKey == call.op = "key_released" /\ call.track # 0
C30_NoteOffMatchesNoteOn ==
    /\ ReleasedNoteKey => call.n = call.track
    /\ keyboard.keys_held = {} => ~generator.on

====
